---- MODULE Spec2Model ----
(***************************************************************************)
(* The manual K-means loop of notebooks/Day2_4-Clustering.ipynb:           *)
(*                                                                         *)
(*     for _ in range(iterations):                                         *)
(*         distances = cdist(centroids, list(zip(x,y)))                    *)
(*         labels = distances.argmin(axis=0)                               *)
(*         centroids = [(x[labels==i].mean(), y[labels==i].mean())         *)
(*                      for i in range(len(centroids))]                    *)
(*                                                                         *)
(* Coordinates are exact rationals (the rounding of floating point is not  *)
(* modelled).  A centroid is the record [sx, sy, n] standing for the       *)
(* location (sx/n, sy/n); n = 0 is the value 0/0 that numpy's mean() of an *)
(* empty selection returns (nan, with a RuntimeWarning and no exception).  *)
(* A distance is kept squared, which orders as its root does, as the       *)
(* record [num, den]; den = 0 is nan.  Indices are 0-based as in the       *)
(* notebook.                                                               *)
(*                                                                         *)
(* x, y, centroids, labels and iterations are the notebook's variables;    *)
(* it counts the passes made and pc is the position in the loop.  Four     *)
(* history variables only record what the loop overwrote: centroids0 the   *)
(* centroids on entry, prevLabels the labels of the pass before,           *)
(* prevCentroids the centroids before the last update, and convAt the      *)
(* first pass whose labels equalled those of the pass before (0: none).    *)
(* stopLabels and stopCentroids record the labels and centroids at the end *)
(* of pass convAt, where a loop that tests for convergence would stop.     *)
(***************************************************************************)
EXTENDS Integers, FiniteSets, Sequences, TLC

\* Bounds of the explored inputs.
MaxCoord == 1
MaxM == 3
MaxN == 3

Coord == 0..MaxCoord

VARIABLES x, y, centroids, labels, iterations, it, pc,
          centroids0, prevLabels, prevCentroids, convAt,
          stopLabels, stopCentroids

vars == <<x, y, centroids, labels, iterations, it, pc,
          centroids0, prevLabels, prevCentroids, convAt,
          stopLabels, stopCentroids>>

\* A centroid given by the caller as a pair of coordinates.
Cent(a, b) == [sx |-> a, sy |-> b, n |-> 1]

IsNaN(c) == c.n = 0

\* Equality of two locations as numbers (nan equals nothing, itself included).
SameLoc(c, d) ==
    /\ c.n # 0
    /\ d.n # 0
    /\ c.sx * d.n = d.sx * c.n
    /\ c.sy * d.n = d.sy * c.n

M == Cardinality(DOMAIN x)
K == Cardinality(DOMAIN centroids)

RECURSIVE SumOver(_, _)
SumOver(f, S) ==
    IF S = {} THEN 0
    ELSE LET e == CHOOSE e \in S : TRUE
         IN f[e] + SumOver(f, S \ {e})

\* scipy's cdist (Euclidean), squared: entry [j][i] is the squared distance
\* from centroid j to point i.  A nan coordinate gives a nan distance.
cdist(XA, xs, ys) ==
    [j \in DOMAIN XA |->
       [i \in DOMAIN xs |->
          [num |-> (XA[j].n * xs[i] - XA[j].sx) * (XA[j].n * xs[i] - XA[j].sx)
                 + (XA[j].n * ys[i] - XA[j].sy) * (XA[j].n * ys[i] - XA[j].sy),
           den |-> XA[j].n * XA[j].n]]]

\* a < b for two distances that are not nan
DLess(a, b) == a.num * b.den < b.num * a.den

SetMin(S) == CHOOSE m \in S : \A k \in S : m <= k

\* numpy's argmin along axis 0: for each column (point) the first index of
\* the minimum; a nan counts as the minimum, so the first nan wins.
argmin(distances, xs) ==
    [i \in DOMAIN xs |->
       LET col == [j \in DOMAIN distances |-> distances[j][i]]
           nans == {j \in DOMAIN col : col[j].den = 0}
           mins == {j \in DOMAIN col : \A k \in DOMAIN col : ~DLess(col[k], col[j])}
       IN IF nans # {} THEN SetMin(nans) ELSE SetMin(mins)]

\* Variant of the mean that takes both coordinates from x.
meanOfXTwice(xs, ys, lab, j) ==
    LET sel == {i \in DOMAIN xs : lab[i] = j}
    IN [sx |-> SumOver(xs, sel), sy |-> SumOver(xs, sel), n |-> Cardinality(sel)]

\* (x[labels==i].mean(), y[labels==i].mean()); an empty selection gives 0/0.
mean(xs, ys, lab, j) ==
    LET sel == {i \in DOMAIN xs : lab[i] = j}
    IN [sx |-> SumOver(xs, sel), sy |-> SumOver(ys, sel), n |-> Cardinality(sel)]

\* Variant of the update that keeps only the clusters that have members.
NewCentroidsNonEmpty(xs, ys, lab, cents) ==
    [j \in {lab[i] : i \in DOMAIN xs} |-> mean(xs, ys, lab, j)]

\* Variant of the update that averages the old centroid in with the members.
NewCentroidsRunning(xs, ys, lab, cents) ==
    [j \in DOMAIN cents |->
       LET m == mean(xs, ys, lab, j)
       IN [sx |-> cents[j].sx + cents[j].n * m.sx,
           sy |-> cents[j].sy + cents[j].n * m.sy,
           n  |-> cents[j].n * (m.n + 1)]]

\* the list comprehension over range(len(centroids))
NewCentroids(xs, ys, lab, cents) ==
    [j \in DOMAIN cents |-> mean(xs, ys, lab, j)]

NoLabels == << >>

\* The inputs explored: every data set of 1..MaxM points on the grid, every
\* tuple of 0..M+1 initial centroids on the grid (so K < 1 and K > M occur),
\* every iteration count 0..MaxN.
GridInput ==
    /\ \E m \in 1..MaxM :
         /\ x \in [0..(m-1) -> Coord]
         /\ y \in [0..(m-1) -> Coord]
         /\ \E k \in 0..(m+1) :
              centroids \in [0..(k-1) -> {Cent(a, b) : a \in Coord, b \in Coord}]
    /\ iterations \in 0..MaxN

\* The four-point data set with two well separated pairs.
ScenarioX == [i \in 0..3 |-> IF i < 2 THEN 0 ELSE 10]
ScenarioY == [i \in 0..3 |-> i % 2]
ScenarioCentroids == [j \in 0..1 |-> IF j = 0 THEN Cent(0, 0) ELSE Cent(10, 0)]

ScenarioInput ==
    /\ x = ScenarioX
    /\ y = ScenarioY
    /\ centroids = ScenarioCentroids
    /\ iterations = 10

Init ==
    /\ GridInput \/ ScenarioInput
    /\ labels = NoLabels
    /\ it = 0
    /\ pc = "loop"
    /\ centroids0 = centroids
    /\ prevLabels = NoLabels
    /\ prevCentroids = centroids
    /\ convAt = 0
    /\ stopLabels = NoLabels
    /\ stopCentroids = << >>

\* Variant of the loop head that admits one pass too many (it <= iterations).
LoopHeadOneMore ==
    /\ pc = "loop"
    /\ pc' = IF it <= iterations THEN "assign" ELSE "done"
    /\ UNCHANGED <<x, y, centroids, labels, iterations, it,
                   centroids0, prevLabels, prevCentroids, convAt,
                   stopLabels, stopCentroids>>

\* for _ in range(iterations):
LoopHead ==
    /\ pc = "loop"
    /\ pc' = IF it < iterations THEN "assign" ELSE "done"
    /\ UNCHANGED <<x, y, centroids, labels, iterations, it,
                   centroids0, prevLabels, prevCentroids, convAt,
                   stopLabels, stopCentroids>>

\* Variant of the assignment step that measures the distances from the
\* initial centroids instead of the current ones.
AssignStepStale ==
    /\ pc = "assign"
    /\ IF K = 0
       THEN /\ pc' = "error"
            /\ UNCHANGED <<labels, prevLabels, convAt>>
       ELSE /\ labels' = argmin(cdist(centroids0, x, y), x)
            /\ prevLabels' = labels
            /\ convAt' = IF convAt = 0 /\ labels' = labels THEN it + 1 ELSE convAt
            /\ pc' = "update"
    /\ UNCHANGED <<x, y, centroids, iterations, it, centroids0, prevCentroids,
                   stopLabels, stopCentroids>>

\* distances = cdist(...); labels = distances.argmin(axis=0)
\* cdist raises ValueError for an empty list of centroids.
AssignStep ==
    /\ pc = "assign"
    /\ IF K = 0
       THEN /\ pc' = "error"
            /\ UNCHANGED <<labels, prevLabels, convAt>>
       ELSE /\ labels' = argmin(cdist(centroids, x, y), x)
            /\ prevLabels' = labels
            /\ convAt' = IF convAt = 0 /\ labels' = labels THEN it + 1 ELSE convAt
            /\ pc' = "update"
    /\ UNCHANGED <<x, y, centroids, iterations, it, centroids0, prevCentroids,
                   stopLabels, stopCentroids>>

\* centroids = [(x[labels==i].mean(), y[labels==i].mean()) for i in ...]
UpdateStep ==
    /\ pc = "update"
    /\ centroids' = NewCentroids(x, y, labels, centroids)
    /\ prevCentroids' = centroids
    /\ it' = it + 1
    /\ pc' = "loop"
    /\ stopLabels' = IF convAt = it + 1 THEN labels ELSE stopLabels
    /\ stopCentroids' = IF convAt = it + 1 THEN centroids' ELSE stopCentroids
    /\ UNCHANGED <<x, y, labels, iterations, centroids0, prevLabels, convAt>>

Next == LoopHead \/ AssignStep \/ UpdateStep

Spec == Init /\ [][Next]_vars

----------------------------------------------------------------------------
\* The inputs the construction contract admits: M >= 1, 1 <= K <= M, N >= 1.
ValidInput ==
    /\ M >= 1
    /\ Cardinality(DOMAIN centroids0) >= 1
    /\ Cardinality(DOMAIN centroids0) <= M
    /\ iterations >= 1

\* What is left to run: three steps per remaining pass, by position.
Rank ==
    3 * (iterations - it)
    + (CASE pc = "loop" -> 3 [] pc = "assign" -> 2 [] pc = "update" -> 1 [] OTHER -> 0)

\* C1: for every valid input the loop terminates, and the number of
\* assignment/update iterations it performed is at least 1 and at most N.
\* Termination is stated by a variant: every step of a valid run lowers Rank,
\* Rank never drops below 0, and a step exists until the loop is done.
C1_Terminates ==
    /\ [](ValidInput => /\ it <= iterations
                        /\ Rank >= 0
                        /\ pc # "error"
                        /\ (pc # "done" => ENABLED Next)
                        /\ (pc = "done" => it >= 1 /\ it <= iterations))
    /\ [][ValidInput => Rank' < Rank]_vars

C1_Witness ==
    /\ ValidInput
    /\ pc = "done"
    /\ it = iterations
    /\ it >= 2

\* C2: the run stops at the first iteration whose assignment equals the
\* previous iteration's assignment, with that iteration as the count; when
\* there is none among the first N, it performs exactly N iterations.
C2_StopsAtConvergence ==
    (ValidInput /\ pc = "done") =>
        IF convAt # 0 THEN it = convAt ELSE it = iterations

\* the clusters of the current assignment that have no member
Empty(lab, j) == \A i \in DOMAIN lab : lab[i] # j

\* C3: the update step leaves the centroid of a cluster with no members at
\* exactly the coordinates it had before the update, and produces no nan.
C3_EmptyClusterKept ==
    [][(ValidInput /\ pc = "update") =>
         \A j \in DOMAIN centroids :
            Empty(labels, j) =>
               /\ ~IsNaN(centroids'[j])
               /\ SameLoc(centroids'[j], centroids[j])]_vars

\* convergence as the notebook defines it: the assignment of this iteration
\* is the assignment of the iteration before
Converged == pc \in {"loop", "done"} /\ it >= 2 /\ labels = prevLabels

\* C4: when the assignment did not change from the previous iteration,
\* one more assignment step against the resulting centroids gives the same
\* assignment again (a fixed point).
C4_FixedPoint ==
    (ValidInput /\ Converged) => argmin(cdist(centroids, x, y), x) = labels

C4_Witness ==
    /\ ValidInput
    /\ Converged
    /\ K >= 2
    /\ \E j \in DOMAIN centroids : centroids[j].n >= 2
    /\ \E j \in DOMAIN centroids : ~SameLoc(centroids[j], centroids0[j])

\* the (squared) distances from point i to every centroid
Col(i) == [j \in DOMAIN centroids |-> cdist(centroids, x, y)[j][i]]

\* C5: after the assignment step every point is assigned to a centroid whose
\* distance to it is minimal over all centroids, and among centroids at equal
\* minimal distance to the lowest index.
C5_NearestLowestIndex ==
    (ValidInput /\ pc = "update") =>
        \A i \in DOMAIN x :
           LET d == Col(i)
               j == labels[i]
           IN /\ d[j].den # 0
              /\ \A k \in DOMAIN d : d[k].den # 0 => ~DLess(d[k], d[j])
              /\ \A k \in DOMAIN d : (k < j /\ d[k].den # 0) => DLess(d[j], d[k])

\* the product of the squared member counts, a common denominator
RECURSIVE DenProd(_, _)
DenProd(cents, S) ==
    IF S = {} THEN 1
    ELSE LET j == CHOOSE j \in S : TRUE
         IN cents[j].n * cents[j].n * DenProd(cents, S \ {j})

\* J(c, mu): the sum over the points of the squared distance to the assigned
\* centroid, as the fraction num/den (den = 0: some assigned centroid is nan).
Distortion(xs, ys, lab, cents) ==
    LET used == {lab[i] : i \in DOMAIN xs}
        D == DenProd(cents, used)
        d == cdist(cents, xs, ys)
        term == [i \in DOMAIN xs |->
                   IF D = 0 THEN 0 ELSE d[lab[i]][i].num * (D \div d[lab[i]][i].den)]
    IN [num |-> SumOver(term, DOMAIN xs), den |-> D]

\* C6: the distortion measured after the update step of an iteration is at
\* most the distortion measured after the update step of the iteration before.
C6_DistortionNonIncreasing ==
    (ValidInput /\ pc = "loop" /\ it >= 2) =>
        LET now == Distortion(x, y, labels, centroids)
            before == Distortion(x, y, prevLabels, prevCentroids)
        IN /\ now.den # 0
           /\ before.den # 0
           /\ ~DLess(before, now)

K0 == Cardinality(DOMAIN centroids0)

DistinctPoints ==
    \A i, k \in DOMAIN x : (x[i] = x[k] /\ y[i] = y[k]) => i = k

\* every cluster has exactly one member and its centroid is that member
EachCentroidIsItsPoint ==
    \A j \in DOMAIN centroids :
       /\ Cardinality({i \in DOMAIN labels : labels[i] = j}) = 1
       /\ \A i \in DOMAIN labels :
             labels[i] = j => SameLoc(centroids[j], Cent(x[i], y[i]))

FirstAssignmentOneToOne ==
    LET first == argmin(cdist(centroids0, x, y), x)
    IN \A i, k \in DOMAIN x : first[i] = first[k] => i = k

IsScenario ==
    /\ x = ScenarioX
    /\ y = ScenarioY
    /\ centroids0 = ScenarioCentroids
    /\ iterations = 10

\* C8: on the four-point scenario with N = 10 the run ends converged after
\* at most 2 iterations with centroids (0, 1/2) and (10, 1/2) and with points
\* 0, 1 assigned to centroid 0 and points 2, 3 to centroid 1.
C8_Scenario ==
    (IsScenario /\ pc = "done") =>
        /\ it <= 2
        /\ convAt \in 1..2
        /\ SameLoc(centroids[0], [sx |-> 0, sy |-> 1, n |-> 2])
        /\ SameLoc(centroids[1], [sx |-> 20, sy |-> 1, n |-> 2])
        /\ labels = [i \in 0..3 |-> IF i < 2 THEN 0 ELSE 1]

\* C9: an input with K > M, K < 1 or N < 1 is refused and no assignment or
\* update is ever performed on it; a valid input never runs into a fault
\* (an exception or a nan location).
C9_ConfigurationErrors ==
    /\ ~ValidInput => (it = 0 /\ labels = NoLabels /\ pc \notin {"update", "done"})
    /\ ValidInput => (pc # "error" /\ \A j \in DOMAIN centroids : ~IsNaN(centroids[j]))

\* C10: in every state after the first assignment step the assignment maps
\* every point index 0..M-1 to one centroid index in 0..K-1, there are still
\* K centroids, and the points are never changed.
C10_Shapes ==
    /\ [](labels # NoLabels =>
            /\ DOMAIN labels = 0..(M - 1)
            /\ \A i \in DOMAIN labels : labels[i] \in 0..(K0 - 1)
            /\ DOMAIN centroids = 0..(K0 - 1)
            /\ DOMAIN x = DOMAIN y)
    /\ [][x' = x /\ y' = y]_vars

C10_Witness ==
    /\ labels # NoLabels
    /\ pc = "done"
    /\ it >= 2
    /\ K0 >= 2
    /\ M >= 3
    /\ \E i, k \in DOMAIN labels : labels[i] # labels[k]

NoNaN(cents) == \A j \in DOMAIN cents : ~IsNaN(cents[j])

SameCentroids(c, d) ==
    /\ DOMAIN c = DOMAIN d
    /\ \A j \in DOMAIN c : SameLoc(c[j], d[j])

\* C11: when no cluster becomes empty, the loop that always makes all its
\* passes ends with the labels and centroids of a loop that stops at the
\* first pass whose assignment equals the previous one: after that pass
\* every further pass leaves labels and centroids as they were.
C11_SameAsEarlyStop ==
    (pc \in {"loop", "done"} /\ convAt # 0 /\ it >= convAt /\ NoNaN(centroids)) =>
        /\ labels = prevLabels
        /\ SameCentroids(centroids, prevCentroids)
        /\ labels = stopLabels
        /\ SameCentroids(centroids, stopCentroids)

C11_Witness ==
    /\ pc = "done"
    /\ convAt # 0
    /\ it >= convAt + 1
    /\ NoNaN(centroids)
    /\ K >= 2
    /\ ~SameCentroids(centroids, centroids0)
    /\ \E i, k \in DOMAIN labels : labels[i] # labels[k]
    /\ labels = stopLabels
    /\ SameCentroids(centroids, stopCentroids)

====
